---- MODULE Spec2Model ----
(***************************************************************************)
(* pypopquiz: the Backend base class (pypopquiz/backends/backend.py), its   *)
(* scoped temporary output file (Backend.tmp_intermediate_file), and the    *)
(* interval helpers of pypopquiz.io exercised by test/test_io.py.           *)
(***************************************************************************)
EXTENDS Integers, Sequences, FiniteSets, TLC

VARIABLES
    fs,             \* the file system: path -> file
    dirs,           \* the temporary directories that exist on disk
    file_name_out,  \* tmp_intermediate_file's argument (the final path)
    tmpdirname,     \* the directory tempfile.TemporaryDirectory created
    tmp_out,        \* the path the generator yields
    pc,             \* the position of the scope (generator and with-body)
    exc,            \* the exception in flight inside the generator
    outcome,        \* what the caller of the with-statement observes
    copy_pos,       \* shutil.copy: chunks written to the destination so far
    pre,            \* the file at file_name_out when the scope was entered
    at_body_end,    \* the file at tmp_out when the body ended
    body_runs,      \* how many times the with-body was started
    copy_called,    \* whether shutil.copy was called
    self,           \* the Backend instance
    ctor_args,      \* the arguments its constructor was given
    last_call,      \* the last Backend operation called
    ret,            \* the value that operation returned
    interval,       \* pypopquiz.io: the pair of timecodes given
    io_call,        \* pypopquiz.io: the last function applied
    io_ret,         \* pypopquiz.io: its result
    frames,         \* the content of the stream, one frame per second
    frames_before,  \* its content before the last operation on it
    edits,          \* how many operations were applied to the stream
    sc              \* two scopes run side by side: the state of each

scope_vars == <<fs, dirs, file_name_out, tmpdirname, tmp_out, pc, exc, outcome,
                copy_pos, pre, at_body_end, body_runs, copy_called>>
backend_vars == <<self, ctor_args, last_call, ret>>
io_vars == <<interval, io_call, io_ret>>
stream_vars == <<frames, frames_before, edits>>
pair_vars == <<sc>>
vars == <<scope_vars, backend_vars, io_vars, stream_vars, pair_vars>>

----------------------------------------------------------------------------
(* Bounds *)

\* the longest file, in chunks
MaxLen == 2
\* the largest minute count of a timecode
MaxMinutes == 4
\* the heights of SpecSizes run from -MaxHeight to MaxHeight
MaxHeight == 30
\* the longest stream given to an operation, in seconds
MaxDuration == 3
\* the most operations applied to one stream
MaxEdits == 1

----------------------------------------------------------------------------
(* The file system *)

Bytes == {"A", "B"}

RECURSIVE SeqsUpTo(_)
SeqsUpTo(n) ==
    IF n = 0 THEN {<<>>}
    ELSE LET shorter == SeqsUpTo(n - 1)
         IN  shorter \cup {Append(s, b) : s \in {t \in shorter : Len(t) = n - 1}, b \in Bytes}

Contents == SeqsUpTo(MaxLen)

NoFile == [exists |-> FALSE, data |-> <<>>]
File(data) == [exists |-> TRUE, data |-> data]
Files == {NoFile} \cup {File(d) : d \in Contents}

OutDirs == {"out"}
\* the directory of the final paths of a second scope
OtherOutDirs == {"other"}
TmpDirs == {"tmp0", "tmp1"}
Names == {"quiz.mp4", "round.mp4"}

\* pathlib.Path: parent / name
Path(parent, name) == [parent |-> parent, name |-> name]
Paths == {Path(p, n) : p \in OutDirs \cup OtherOutDirs \cup TmpDirs, n \in Names}
FinalPaths == {Path(p, n) : p \in OutDirs, n \in Names}

NoPath == Path("", "")

\* Path.exists()
Exists(p) == fs[p].exists

\* what may already be at a final path before the scope is entered
OldFiles == {NoFile, File(<<"A">>)}

----------------------------------------------------------------------------
(* Backend.tmp_intermediate_file *)

\* The variant of TmpEnter that yields file_name_out itself.
TmpEnterYieldsFinal ==
    /\ pc = "idle"
    /\ \E f \in FinalPaths, d \in TmpDirs \ dirs :
        /\ file_name_out' = f
        /\ tmpdirname' = d
        /\ dirs' = dirs \cup {d}
        /\ tmp_out' = f
        /\ pre' = fs[f]
    /\ body_runs' = body_runs + 1
    /\ pc' = "body"
    /\ UNCHANGED <<fs, exc, outcome, copy_pos, at_body_end, copy_called>>
    /\ UNCHANGED <<backend_vars, io_vars, stream_vars, pair_vars>>

\* Entering the with-statement runs the generator up to its yield: the
\* temporary directory is created (mkdtemp picks a name that does not
\* exist), tmp_out is computed, and the with-body starts.
TmpEnter ==
    /\ pc = "idle"
    /\ \E f \in FinalPaths, d \in TmpDirs \ dirs :
        /\ file_name_out' = f
        /\ tmpdirname' = d
        /\ dirs' = dirs \cup {d}
        /\ tmp_out' = Path(d, f.name)
        /\ pre' = fs[f]
    /\ body_runs' = body_runs + 1
    /\ pc' = "body"
    /\ UNCHANGED <<fs, exc, outcome, copy_pos, at_body_end, copy_called>>
    /\ UNCHANGED <<backend_vars, io_vars, stream_vars, pair_vars>>

\* The with-body writes (or rewrites) the file at the path it was given.
BodyWrite ==
    /\ pc = "body"
    /\ \E d \in Contents : fs' = [fs EXCEPT ![tmp_out] = File(d)]
    /\ UNCHANGED <<dirs, file_name_out, tmpdirname, tmp_out, pc, exc, outcome,
                   copy_pos, pre, at_body_end, body_runs, copy_called>>
    /\ UNCHANGED <<backend_vars, io_vars, stream_vars, pair_vars>>

\* The with-body completes: contextmanager.__exit__ resumes the generator
\* after its yield.
BodyReturn ==
    /\ pc = "body"
    /\ at_body_end' = fs[tmp_out]
    /\ pc' = "resumed"
    /\ UNCHANGED <<fs, dirs, file_name_out, tmpdirname, tmp_out, exc, outcome,
                   copy_pos, pre, body_runs, copy_called>>
    /\ UNCHANGED <<backend_vars, io_vars, stream_vars, pair_vars>>

\* The with-body raises: contextmanager.__exit__ throws the exception into
\* the generator at its yield.
BodyRaise ==
    /\ pc = "body"
    /\ at_body_end' = fs[tmp_out]
    /\ exc' = "BodyError"
    /\ pc' = "thrown"
    /\ UNCHANGED <<fs, dirs, file_name_out, tmpdirname, tmp_out, outcome,
                   copy_pos, pre, body_runs, copy_called>>
    /\ UNCHANGED <<backend_vars, io_vars, stream_vars, pair_vars>>

\* The variant of GenThrow with the yield inside try/finally: the code after
\* the yield runs on an exception too.
GenThrowFinally ==
    /\ pc = "thrown"
    /\ pc' = "resumed"
    /\ UNCHANGED <<fs, dirs, file_name_out, tmpdirname, tmp_out, exc, outcome,
                   copy_pos, pre, at_body_end, body_runs, copy_called>>
    /\ UNCHANGED <<backend_vars, io_vars, stream_vars, pair_vars>>

\* The exception arrives at the yield, which no try statement encloses: the
\* lines after the yield are skipped and the exception leaves the
\* TemporaryDirectory with-block.
GenThrow ==
    /\ pc = "thrown"
    /\ pc' = "cleanup"
    /\ UNCHANGED <<fs, dirs, file_name_out, tmpdirname, tmp_out, exc, outcome,
                   copy_pos, pre, at_body_end, body_runs, copy_called>>
    /\ UNCHANGED <<backend_vars, io_vars, stream_vars, pair_vars>>

\* The variant of GenResume that leaves out the copy.
GenResumeSkipsCopy ==
    /\ pc = "resumed"
    /\ pc' = "cleanup"
    /\ UNCHANGED <<fs, dirs, file_name_out, tmpdirname, tmp_out, exc, outcome,
                   copy_pos, pre, at_body_end, body_runs, copy_called>>
    /\ UNCHANGED <<backend_vars, io_vars, stream_vars, pair_vars>>

\* The variant of GenResume that copies without asking whether the file
\* exists.
GenResumeNoCheck ==
    /\ pc = "resumed"
    /\ pc' = "copy_open"
    /\ copy_called' = TRUE
    /\ UNCHANGED <<fs, dirs, file_name_out, tmpdirname, tmp_out, exc, outcome,
                   copy_pos, pre, at_body_end, body_runs>>
    /\ UNCHANGED <<backend_vars, io_vars, stream_vars, pair_vars>>

\* if tmp_out.exists(): shutil.copy is called, else the with-block ends.
GenResume ==
    /\ pc = "resumed"
    /\ IF Exists(tmp_out)
       THEN pc' = "copy_open" /\ copy_called' = TRUE
       ELSE pc' = "cleanup" /\ copy_called' = copy_called
    /\ UNCHANGED <<fs, dirs, file_name_out, tmpdirname, tmp_out, exc, outcome,
                   copy_pos, pre, at_body_end, body_runs>>
    /\ UNCHANGED <<backend_vars, io_vars, stream_vars, pair_vars>>

\* The variant of CopyOpen that opens the destination for appending.
CopyOpenAppend ==
    /\ pc = "copy_open"
    /\ fs' = [fs EXCEPT ![file_name_out] = File(@.data)]
    /\ copy_pos' = 0
    /\ pc' = "copy_write"
    /\ UNCHANGED <<dirs, file_name_out, tmpdirname, tmp_out, exc, outcome,
                   pre, at_body_end, body_runs, copy_called>>
    /\ UNCHANGED <<backend_vars, io_vars, stream_vars, pair_vars>>

\* shutil.copy opens the destination for writing, in place: the file at
\* file_name_out is created or truncated.
CopyOpen ==
    /\ pc = "copy_open"
    /\ fs' = [fs EXCEPT ![file_name_out] = File(<<>>)]
    /\ copy_pos' = 0
    /\ pc' = "copy_write"
    /\ UNCHANGED <<dirs, file_name_out, tmpdirname, tmp_out, exc, outcome,
                   pre, at_body_end, body_runs, copy_called>>
    /\ UNCHANGED <<backend_vars, io_vars, stream_vars, pair_vars>>

\* shutil.copy writes the next chunk of the source to the destination.
CopyChunk ==
    /\ pc = "copy_write"
    /\ copy_pos < Len(fs[tmp_out].data)
    /\ fs' = [fs EXCEPT ![file_name_out] =
                  File(Append(@.data, fs[tmp_out].data[copy_pos + 1]))]
    /\ copy_pos' = copy_pos + 1
    /\ UNCHANGED <<dirs, file_name_out, tmpdirname, tmp_out, pc, exc, outcome,
                   pre, at_body_end, body_runs, copy_called>>
    /\ UNCHANGED <<backend_vars, io_vars, stream_vars, pair_vars>>

\* shutil.copy has written every chunk and returns.
CopyReturn ==
    /\ pc = "copy_write"
    /\ copy_pos = Len(fs[tmp_out].data)
    /\ pc' = "cleanup"
    /\ UNCHANGED <<fs, dirs, file_name_out, tmpdirname, tmp_out, exc, outcome,
                   copy_pos, pre, at_body_end, body_runs, copy_called>>
    /\ UNCHANGED <<backend_vars, io_vars, stream_vars, pair_vars>>

\* shutil.copy raises OSError: the destination cannot be opened, or a write
\* fails (disk full, I/O error) after any number of chunks.
CopyFail ==
    /\ pc \in {"copy_open", "copy_write"}
    /\ exc' = "OSError"
    /\ pc' = "cleanup"
    /\ UNCHANGED <<fs, dirs, file_name_out, tmpdirname, tmp_out, outcome,
                   copy_pos, pre, at_body_end, body_runs, copy_called>>
    /\ UNCHANGED <<backend_vars, io_vars, stream_vars, pair_vars>>

\* The variant of TmpDirCleanup that removes the file at tmp_out and leaves
\* the directory.
TmpDirCleanupFileOnly ==
    /\ pc = "cleanup"
    /\ fs' = [fs EXCEPT ![tmp_out] = NoFile]
    /\ pc' = "exit"
    /\ UNCHANGED <<dirs, file_name_out, tmpdirname, tmp_out, exc, outcome,
                   copy_pos, pre, at_body_end, body_runs, copy_called>>
    /\ UNCHANGED <<backend_vars, io_vars, stream_vars, pair_vars>>

\* The variant of TmpDirCleanup of a directory made with mkdtemp and removed
\* by hand at the end of the block: an exception skips the removal.
TmpDirCleanupOnSuccessOnly ==
    /\ pc = "cleanup"
    /\ IF exc = "none"
       THEN /\ dirs' = dirs \ {tmpdirname}
            /\ fs' = [p \in Paths |-> IF p.parent = tmpdirname THEN NoFile ELSE fs[p]]
       ELSE UNCHANGED <<dirs, fs>>
    /\ pc' = "exit"
    /\ UNCHANGED <<file_name_out, tmpdirname, tmp_out, exc, outcome,
                   copy_pos, pre, at_body_end, body_runs, copy_called>>
    /\ UNCHANGED <<backend_vars, io_vars, stream_vars, pair_vars>>

\* Leaving the TemporaryDirectory with-block, normally or by an exception:
\* the directory and everything in it is removed; an exception is not
\* suppressed.
TmpDirCleanup ==
    /\ pc = "cleanup"
    /\ dirs' = dirs \ {tmpdirname}
    /\ fs' = [p \in Paths |-> IF p.parent = tmpdirname THEN NoFile ELSE fs[p]]
    /\ pc' = "exit"
    /\ UNCHANGED <<file_name_out, tmpdirname, tmp_out, exc, outcome,
                   copy_pos, pre, at_body_end, body_runs, copy_called>>
    /\ UNCHANGED <<backend_vars, io_vars, stream_vars, pair_vars>>

\* The variant of ScopeExit of a generator that catches the exception.
ScopeExitSwallow ==
    /\ pc = "exit"
    /\ outcome' = "returned"
    /\ pc' = "done"
    /\ UNCHANGED <<fs, dirs, file_name_out, tmpdirname, tmp_out, exc,
                   copy_pos, pre, at_body_end, body_runs, copy_called>>
    /\ UNCHANGED <<backend_vars, io_vars, stream_vars, pair_vars>>

\* The generator ends: the with-statement completes when no exception is in
\* flight, and otherwise the exception reaches the caller.
ScopeExit ==
    /\ pc = "exit"
    /\ outcome' = IF exc = "none" THEN "returned" ELSE exc
    /\ pc' = "done"
    /\ UNCHANGED <<fs, dirs, file_name_out, tmpdirname, tmp_out, exc,
                   copy_pos, pre, at_body_end, body_runs, copy_called>>
    /\ UNCHANGED <<backend_vars, io_vars, stream_vars, pair_vars>>

----------------------------------------------------------------------------
(* Backend: the constructor and the operations the base class implements *)

Widths == {640}
Heights == {480, 720}
\* (duration, width, height) given to a factory operation
FactoryArgs == {<<5, 640, 480>>, <<3, 320, 240>>}
\* (start, end, freq_hz) given to replace_audio_by_beep
BeepArgs == {<<0, 1, 1500>>, <<5, 9, 440>>}

\* Python values an operation returns
None == [type |-> "NoneType"]
IntValue(n) == [type |-> "int", value |-> n]
BackendValue(b) == [type |-> "Backend", has_video |-> b.has_video,
                    has_audio |-> b.has_audio, width |-> b.width, height |-> b.height]

\* Backend.__init__
Backend_init(has_video, has_audio, width, height) ==
    [has_video |-> has_video, has_audio |-> has_audio, width |-> width, height |-> height]

Call(op, args) == [op |-> op, args |-> args]

\* The program is single-threaded: the caller calls the Backend outside the
\* scope or from the with-body, never while the generator runs.
CallerRuns == pc \in {"idle", "body", "done"}

\* The variant of get_font_size that rounds toward zero, as int(height / 14).
get_font_size_truncates ==
    /\ CallerRuns
    /\ last_call' = Call("get_font_size", <<>>)
    /\ ret' = IntValue(IF self.height >= 0 THEN self.height \div 14
                                           ELSE -((-self.height) \div 14))
    /\ UNCHANGED <<self, ctor_args, scope_vars, io_vars, stream_vars, pair_vars>>

get_font_size ==
    /\ CallerRuns
    /\ last_call' = Call("get_font_size", <<>>)
    /\ ret' = IntValue(self.height \div 14)
    /\ UNCHANGED <<self, ctor_args, scope_vars, io_vars, stream_vars, pair_vars>>

get_box_height ==
    /\ CallerRuns
    /\ last_call' = Call("get_box_height", <<>>)
    /\ ret' = IntValue(self.height \div 7)
    /\ UNCHANGED <<self, ctor_args, scope_vars, io_vars, stream_vars, pair_vars>>

\* The body is a docstring: nothing is done and None is returned.
draw_text ==
    /\ CallerRuns
    /\ last_call' = Call("draw_text", <<>>)
    /\ ret' = None
    /\ UNCHANGED <<self, ctor_args, scope_vars, io_vars, stream_vars, pair_vars>>

\* The variant of replace_audio_by_beep that records the stream as having audio.
replace_audio_by_beep_sets_audio ==
    /\ CallerRuns
    /\ \E a \in BeepArgs : last_call' = Call("replace_audio_by_beep", a)
    /\ ret' = None
    /\ self' = [self EXCEPT !.has_audio = TRUE]
    /\ UNCHANGED <<ctor_args, scope_vars, io_vars, stream_vars, pair_vars>>

\* The body is a docstring: nothing is done and None is returned.
replace_audio_by_beep ==
    /\ CallerRuns
    /\ \E a \in BeepArgs : last_call' = Call("replace_audio_by_beep", a)
    /\ ret' = None
    /\ UNCHANGED <<self, ctor_args, scope_vars, io_vars, stream_vars, pair_vars>>

\* The three factory class methods: each body is a docstring, so the call
\* returns None whatever the arguments.
create_empty_stream ==
    /\ CallerRuns
    /\ \E a \in FactoryArgs : last_call' = Call("create_empty_stream", a)
    /\ ret' = None
    /\ UNCHANGED <<self, ctor_args, scope_vars, io_vars, stream_vars, pair_vars>>

create_silent_stream ==
    /\ CallerRuns
    /\ \E a \in FactoryArgs : last_call' = Call("create_silent_stream", a)
    /\ ret' = None
    /\ UNCHANGED <<self, ctor_args, scope_vars, io_vars, stream_vars, pair_vars>>

create_single_image_stream ==
    /\ CallerRuns
    /\ \E a \in FactoryArgs : last_call' = Call("create_single_image_stream", a)
    /\ ret' = None
    /\ UNCHANGED <<self, ctor_args, scope_vars, io_vars, stream_vars, pair_vars>>

----------------------------------------------------------------------------
(* pypopquiz.io: timecodes and intervals *)

Digits == <<"0", "1", "2", "3", "4", "5", "6", "7", "8", "9">>
DigitOf(n) == Digits[n + 1]
DigitValue(c) == CHOOSE n \in 0..9 : Digits[n + 1] = c

\* str(n) for n >= 0, as the sequence of its characters
RECURSIVE FormatInt(_)
FormatInt(n) ==
    IF n < 10 THEN <<DigitOf(n)>> ELSE Append(FormatInt(n \div 10), DigitOf(n % 10))

\* the timecode "m:ss" of m minutes and s seconds
Timecode(m, s) == FormatInt(m) \o <<":">> \o <<DigitOf(s \div 10), DigitOf(s % 10)>>

\* int(s) of a sequence of digits
RECURSIVE ParseInt(_)
ParseInt(s) ==
    IF s = <<>> THEN 0
    ELSE 10 * ParseInt(SubSeq(s, 1, Len(s) - 1)) + DigitValue(s[Len(s)])

\* the place of the colon in a timecode
ColonAt(s) == CHOOSE i \in 1..Len(s) : s[i] = ":"

\* The variant of parse_timecode that counts 100 seconds to the minute.
parse_timecode_decimal(s) ==
    100 * ParseInt(SubSeq(s, 1, ColonAt(s) - 1))
        + ParseInt(SubSeq(s, ColonAt(s) + 1, Len(s)))

\* "M:SS" (and multi-digit minutes) to total seconds
parse_timecode(s) ==
    60 * ParseInt(SubSeq(s, 1, ColonAt(s) - 1))
        + ParseInt(SubSeq(s, ColonAt(s) + 1, Len(s)))

get_interval_in_s(pair) == <<parse_timecode(pair[1]), parse_timecode(pair[2])>>

get_interval_duration(pair) ==
    LET in_s == get_interval_in_s(pair) IN in_s[2] - in_s[1]

TupleValue(t) == [type |-> "tuple", value |-> t]

Minutes == (0..MaxMinutes) \cup {12}
Seconds == 0..59

call_get_interval_in_s ==
    /\ io_call' = "get_interval_in_s"
    /\ io_ret' = TupleValue(get_interval_in_s(interval.strings))
    /\ UNCHANGED <<interval, scope_vars, backend_vars, stream_vars, pair_vars>>

call_get_interval_duration ==
    /\ io_call' = "get_interval_duration"
    /\ io_ret' = IntValue(get_interval_duration(interval.strings))
    /\ UNCHANGED <<interval, scope_vars, backend_vars, stream_vars, pair_vars>>

----------------------------------------------------------------------------
(* The stream of an instance: trim, combine, replace_audio_by_beep *)

\* a stream of n seconds from one source: one frame per second, each frame
\* the set of the source frames shown in it
Stream(src, n) == [i \in 1..n |-> {<<src, i>>}]

InvalidRangeError == [type |-> "InvalidRangeError"]
IncompatibleStreamError == [type |-> "IncompatibleStreamError"]

Min(a, b) == IF a <= b THEN a ELSE b

\* the seconds [start_s, end_s) of a stream, as far as the stream has them
Restrict(f, start_s, end_s) ==
    LET last == Min(end_s, Len(f))
        n == IF last > start_s THEN last - start_s ELSE 0
    IN  [i \in 1..n |-> f[start_s + i]]

\* first followed by second, the last d seconds of first shown together
\* with the first d seconds of second
Joined(first, second, d) ==
    LET own == Len(first) - d
    IN  [i \in 1..(Len(first) + Len(second) - d) |->
            IF i <= own THEN first[i]
            ELSE IF i <= Len(first) THEN first[i] \cup second[i - own]
            ELSE second[i - own]]

\* both video-capable or both audio-capable
Compatible(a, b) == (a.has_video /\ b.has_video) \/ (a.has_audio /\ b.has_audio)

TrimTimes == -1..(MaxDuration + 1)
FadeTimes == 0..MaxDuration
Others ==
    {[has_video |-> k, has_audio |-> ~k, duration |-> n] : k \in BOOLEAN, n \in 0..MaxDuration}

\* The variant of trim that takes (start_s, end_s) as a start and a length.
trim_by_length ==
    /\ pc = "idle"
    /\ edits < MaxEdits
    /\ edits' = edits + 1
    /\ \E start_s \in TrimTimes, end_s \in TrimTimes :
        /\ last_call' = Call("trim", <<start_s, end_s>>)
        /\ IF 0 <= start_s /\ start_s < end_s
           THEN /\ frames' = Restrict(frames, start_s, start_s + end_s)
                /\ ret' = None
           ELSE /\ frames' = frames
                /\ ret' = InvalidRangeError
    /\ frames_before' = frames
    /\ UNCHANGED <<self, ctor_args, scope_vars, io_vars, pair_vars>>

\* trim(start_s, end_s): InvalidRangeError unless 0 <= start_s < end_s, else
\* the stream is restricted to [start_s, end_s).
trim ==
    /\ pc = "idle"
    /\ edits < MaxEdits
    /\ edits' = edits + 1
    /\ \E start_s \in TrimTimes, end_s \in TrimTimes :
        /\ last_call' = Call("trim", <<start_s, end_s>>)
        /\ IF 0 <= start_s /\ start_s < end_s
           THEN /\ frames' = Restrict(frames, start_s, end_s)
                /\ ret' = None
           ELSE /\ frames' = frames
                /\ ret' = InvalidRangeError
    /\ frames_before' = frames
    /\ UNCHANGED <<self, ctor_args, scope_vars, io_vars, pair_vars>>

\* The variant of combine that joins the streams end to end and ignores
\* the crossfade.
combine_without_overlap ==
    /\ pc = "idle"
    /\ edits < MaxEdits
    /\ edits' = edits + 1
    /\ \E other \in Others, other_first \in BOOLEAN, crossfade_duration \in FadeTimes :
        /\ last_call' = Call("combine", <<other.duration, crossfade_duration>>)
        /\ IF ~Compatible(self, other)
           THEN frames' = frames /\ ret' = IncompatibleStreamError
           ELSE IF crossfade_duration > Len(frames) \/ crossfade_duration > other.duration
           THEN frames' = frames /\ ret' = InvalidRangeError
           ELSE /\ frames' = IF other_first
                             THEN Joined(Stream("other", other.duration), frames, 0)
                             ELSE Joined(frames, Stream("other", other.duration), 0)
                /\ ret' = None
    /\ frames_before' = frames
    /\ UNCHANGED <<self, ctor_args, scope_vars, io_vars, pair_vars>>

\* combine(other, other_first, crossfade_duration): IncompatibleStreamError
\* when the media kinds differ, InvalidRangeError when the crossfade is longer
\* than either stream, else the two streams joined in the order given.
combine ==
    /\ pc = "idle"
    /\ edits < MaxEdits
    /\ edits' = edits + 1
    /\ \E other \in Others, other_first \in BOOLEAN, crossfade_duration \in FadeTimes :
        /\ last_call' = Call("combine", <<other.duration, crossfade_duration>>)
        /\ IF ~Compatible(self, other)
           THEN frames' = frames /\ ret' = IncompatibleStreamError
           ELSE IF crossfade_duration > Len(frames) \/ crossfade_duration > other.duration
           THEN frames' = frames /\ ret' = InvalidRangeError
           ELSE /\ frames' = IF other_first
                             THEN Joined(Stream("other", other.duration), frames,
                                         crossfade_duration)
                             ELSE Joined(frames, Stream("other", other.duration),
                                         crossfade_duration)
                /\ ret' = None
    /\ frames_before' = frames
    /\ UNCHANGED <<self, ctor_args, scope_vars, io_vars, pair_vars>>

----------------------------------------------------------------------------
(* Two scopes side by side *)

ScopeIds == {1, 2}

\* a scope that has not been entered
IdleScope ==
    [file_name_out |-> NoPath, tmpdirname |-> "", tmp_out |-> NoPath, pc |-> "idle",
     exc |-> "none", outcome |-> "pending", copy_pos |-> 0, pre |-> NoFile,
     written |-> NoFile, at_body_end |-> NoFile]


\* the variables of the single scope, the instance, the interval helpers and
\* the stream, which two scopes side by side leave alone
pair_frame == <<file_name_out, tmpdirname, tmp_out, pc, exc, outcome, copy_pos, pre,
                at_body_end, body_runs, copy_called, backend_vars, io_vars, stream_vars>>

\* the final paths of scope i: the two scopes write to different directories,
\* so their final paths differ even when the file names are the same
ScopeFinalPaths(i) ==
    {Path(p, n) : p \in (IF i = 1 THEN OutDirs ELSE OtherOutDirs), n \in Names}

\* what the body of scope i writes: its own byte, so that the content of a
\* file tells which body wrote it
ScopeByte(i) == IF i = 1 THEN "A" ELSE "B"
ScopeContents(i) == {[k \in 1..n |-> ScopeByte(i)] : n \in 0..MaxLen}

PairOldFiles == {NoFile, File(<<"Z">>)}

\* The variant of PairEnter with a directory of a fixed name in place of
\* mkdtemp: the name may be that of a directory in use.
PairEnterSharedDir(i) ==
    /\ sc[i].pc = "idle"
    /\ \E f \in ScopeFinalPaths(i), d \in TmpDirs :
        /\ sc' = [sc EXCEPT ![i] = [@ EXCEPT !.file_name_out = f, !.tmpdirname = d,
                                             !.tmp_out = Path(d, f.name),
                                             !.pre = fs[f], !.pc = "body"]]
        /\ dirs' = dirs \cup {d}
    /\ UNCHANGED fs
    /\ UNCHANGED pair_frame

\* TmpEnter of scope i
PairEnter(i) ==
    /\ sc[i].pc = "idle"
    /\ \E f \in ScopeFinalPaths(i), d \in TmpDirs \ dirs :
        /\ sc' = [sc EXCEPT ![i] = [@ EXCEPT !.file_name_out = f, !.tmpdirname = d,
                                             !.tmp_out = Path(d, f.name),
                                             !.pre = fs[f], !.pc = "body"]]
        /\ dirs' = dirs \cup {d}
    /\ UNCHANGED fs
    /\ UNCHANGED pair_frame

\* BodyWrite of scope i
PairBodyWrite(i) ==
    /\ sc[i].pc = "body"
    /\ \E d \in ScopeContents(i) :
        /\ fs' = [fs EXCEPT ![sc[i].tmp_out] = File(d)]
        /\ sc' = [sc EXCEPT ![i].written = File(d)]
    /\ UNCHANGED dirs
    /\ UNCHANGED pair_frame

\* BodyReturn of scope i
PairBodyReturn(i) ==
    /\ sc[i].pc = "body"
    /\ sc' = [sc EXCEPT ![i] = [@ EXCEPT !.at_body_end = fs[sc[i].tmp_out], !.pc = "resumed"]]
    /\ UNCHANGED <<fs, dirs>>
    /\ UNCHANGED pair_frame

\* BodyRaise of scope i
PairBodyRaise(i) ==
    /\ sc[i].pc = "body"
    /\ sc' = [sc EXCEPT ![i] = [@ EXCEPT !.at_body_end = fs[sc[i].tmp_out],
                                         !.exc = "BodyError", !.pc = "thrown"]]
    /\ UNCHANGED <<fs, dirs>>
    /\ UNCHANGED pair_frame

\* GenThrow of scope i
PairGenThrow(i) ==
    /\ sc[i].pc = "thrown"
    /\ sc' = [sc EXCEPT ![i].pc = "cleanup"]
    /\ UNCHANGED <<fs, dirs>>
    /\ UNCHANGED pair_frame

\* GenResume of scope i
PairGenResume(i) ==
    /\ sc[i].pc = "resumed"
    /\ sc' = [sc EXCEPT ![i].pc = IF Exists(sc[i].tmp_out) THEN "copy_open" ELSE "cleanup"]
    /\ UNCHANGED <<fs, dirs>>
    /\ UNCHANGED pair_frame

\* CopyOpen of scope i
PairCopyOpen(i) ==
    /\ sc[i].pc = "copy_open"
    /\ fs' = [fs EXCEPT ![sc[i].file_name_out] = File(<<>>)]
    /\ sc' = [sc EXCEPT ![i] = [@ EXCEPT !.copy_pos = 0, !.pc = "copy_write"]]
    /\ UNCHANGED dirs
    /\ UNCHANGED pair_frame

\* CopyChunk of scope i
PairCopyChunk(i) ==
    /\ sc[i].pc = "copy_write"
    /\ sc[i].copy_pos < Len(fs[sc[i].tmp_out].data)
    /\ fs' = [fs EXCEPT ![sc[i].file_name_out] =
                  File(Append(@.data, fs[sc[i].tmp_out].data[sc[i].copy_pos + 1]))]
    /\ sc' = [sc EXCEPT ![i].copy_pos = @ + 1]
    /\ UNCHANGED dirs
    /\ UNCHANGED pair_frame

\* CopyReturn of scope i
PairCopyReturn(i) ==
    /\ sc[i].pc = "copy_write"
    /\ sc[i].copy_pos = Len(fs[sc[i].tmp_out].data)
    /\ sc' = [sc EXCEPT ![i].pc = "cleanup"]
    /\ UNCHANGED <<fs, dirs>>
    /\ UNCHANGED pair_frame

\* CopyFail of scope i
PairCopyFail(i) ==
    /\ sc[i].pc \in {"copy_open", "copy_write"}
    /\ sc' = [sc EXCEPT ![i] = [@ EXCEPT !.exc = "OSError", !.pc = "cleanup"]]
    /\ UNCHANGED <<fs, dirs>>
    /\ UNCHANGED pair_frame

\* TmpDirCleanup of scope i
PairTmpDirCleanup(i) ==
    /\ sc[i].pc = "cleanup"
    /\ dirs' = dirs \ {sc[i].tmpdirname}
    /\ fs' = [p \in Paths |-> IF p.parent = sc[i].tmpdirname THEN NoFile ELSE fs[p]]
    /\ sc' = [sc EXCEPT ![i].pc = "exit"]
    /\ UNCHANGED pair_frame

\* ScopeExit of scope i
PairScopeExit(i) ==
    /\ sc[i].pc = "exit"
    /\ sc' = [sc EXCEPT ![i] = [@ EXCEPT !.outcome = IF sc[i].exc = "none" THEN "returned"
                                                      ELSE sc[i].exc,
                                         !.pc = "done"]]
    /\ UNCHANGED <<fs, dirs>>
    /\ UNCHANGED pair_frame

----------------------------------------------------------------------------
(* Specifications *)

NoInterval == [start |-> <<0, 0>>, end |-> <<0, 0>>, strings |-> <<<<>>, <<>>>>]

InitScope ==
    /\ \E old \in [FinalPaths -> OldFiles] :
           fs = [p \in Paths |-> IF p \in FinalPaths THEN old[p] ELSE NoFile]
    /\ dirs = {}
    /\ file_name_out = NoPath
    /\ tmpdirname = ""
    /\ tmp_out = NoPath
    /\ pc = "idle"
    /\ exc = "none"
    /\ outcome = "pending"
    /\ copy_pos = 0
    /\ pre = NoFile
    /\ at_body_end = NoFile
    /\ body_runs = 0
    /\ copy_called = FALSE

InitBackend ==
    /\ ctor_args \in [has_video : BOOLEAN, has_audio : BOOLEAN,
                       width : Widths, height : Heights]
    /\ self = Backend_init(ctor_args.has_video, ctor_args.has_audio,
                           ctor_args.width, ctor_args.height)
    /\ last_call = Call("none", <<>>)
    /\ ret = None

InitNoIO ==
    /\ interval = NoInterval
    /\ io_call = "none"
    /\ io_ret = None

InitNoStream == frames = <<>> /\ frames_before = <<>> /\ edits = 0

InitNoPair == sc = [i \in ScopeIds |-> IdleScope]

Init == InitScope /\ InitBackend /\ InitNoIO /\ InitNoStream /\ InitNoPair

Next ==
    \/ TmpEnter
    \/ BodyWrite
    \/ BodyReturn
    \/ BodyRaise
    \/ GenThrow
    \/ GenResume
    \/ CopyOpen
    \/ CopyChunk
    \/ CopyReturn
    \/ CopyFail
    \/ TmpDirCleanup
    \/ ScopeExit
    \/ get_font_size
    \/ get_box_height
    \/ draw_text
    \/ replace_audio_by_beep
    \/ create_empty_stream
    \/ create_silent_stream
    \/ create_single_image_stream

Spec == Init /\ [][Next]_vars

\* The interval helpers applied to every pair of valid timecodes.
InitIO ==
    /\ \E m1 \in Minutes, s1 \in Seconds, m2 \in Minutes, s2 \in Seconds :
           interval = [start |-> <<m1, s1>>, end |-> <<m2, s2>>,
                       strings |-> <<Timecode(m1, s1), Timecode(m2, s2)>>]
    /\ io_call = "none"
    /\ io_ret = None
    /\ fs = [p \in Paths |-> NoFile]
    /\ dirs = {}
    /\ file_name_out = NoPath
    /\ tmpdirname = ""
    /\ tmp_out = NoPath
    /\ pc = "idle"
    /\ exc = "none"
    /\ outcome = "pending"
    /\ copy_pos = 0
    /\ pre = NoFile
    /\ at_body_end = NoFile
    /\ body_runs = 0
    /\ copy_called = FALSE
    /\ ctor_args = [has_video |-> TRUE, has_audio |-> TRUE, width |-> 640, height |-> 480]
    /\ self = Backend_init(TRUE, TRUE, 640, 480)
    /\ last_call = Call("none", <<>>)
    /\ ret = None
    /\ InitNoStream
    /\ InitNoPair

NextIO ==
    \/ call_get_interval_in_s
    \/ call_get_interval_duration

SpecIO == InitIO /\ [][NextIO]_vars

\* no scope has been entered and nothing is on disk
InitScopeIdle ==
    /\ fs = [p \in Paths |-> NoFile]
    /\ dirs = {}
    /\ file_name_out = NoPath
    /\ tmpdirname = ""
    /\ tmp_out = NoPath
    /\ pc = "idle"
    /\ exc = "none"
    /\ outcome = "pending"
    /\ copy_pos = 0
    /\ pre = NoFile
    /\ at_body_end = NoFile
    /\ body_runs = 0
    /\ copy_called = FALSE

\* The size helpers on instances of every height, negative ones included.
SizeWidths == {640, 1280}
SizeHeights == (-MaxHeight..MaxHeight) \cup Heights

InitSizes ==
    /\ ctor_args \in [has_video : BOOLEAN, has_audio : BOOLEAN,
                       width : SizeWidths, height : SizeHeights]
    /\ self = Backend_init(ctor_args.has_video, ctor_args.has_audio,
                           ctor_args.width, ctor_args.height)
    /\ last_call = Call("none", <<>>)
    /\ ret = None
    /\ InitScopeIdle
    /\ InitNoIO
    /\ InitNoStream
    /\ InitNoPair

NextSizes ==
    \/ get_font_size
    \/ get_box_height

SpecSizes == InitSizes /\ [][NextSizes]_vars

\* The operations on the stream of an instance, on streams of every length
\* up to MaxDuration.
InitStream ==
    /\ ctor_args \in [has_video : BOOLEAN, has_audio : BOOLEAN,
                       width : Widths, height : {480}]
    /\ self = Backend_init(ctor_args.has_video, ctor_args.has_audio,
                           ctor_args.width, ctor_args.height)
    /\ last_call = Call("none", <<>>)
    /\ ret = None
    /\ \E n \in 0..MaxDuration : frames = Stream("self", n)
    /\ frames_before = <<>>
    /\ edits = 0
    /\ InitScopeIdle
    /\ InitNoIO
    /\ InitNoPair

NextStream ==
    \/ trim
    \/ combine
    \/ replace_audio_by_beep

SpecStream == InitStream /\ [][NextStream]_vars

\* Two scopes with different final paths, their steps interleaved in every
\* order.
InitPair ==
    /\ \E old \in PairOldFiles :
           fs = [p \in Paths |-> IF p.parent \in OutDirs \cup OtherOutDirs THEN old ELSE NoFile]
    /\ dirs = {}
    /\ sc = [i \in ScopeIds |-> IdleScope]
    /\ file_name_out = NoPath
    /\ tmpdirname = ""
    /\ tmp_out = NoPath
    /\ pc = "idle"
    /\ exc = "none"
    /\ outcome = "pending"
    /\ copy_pos = 0
    /\ pre = NoFile
    /\ at_body_end = NoFile
    /\ body_runs = 0
    /\ copy_called = FALSE
    /\ ctor_args = [has_video |-> TRUE, has_audio |-> TRUE, width |-> 640, height |-> 480]
    /\ self = Backend_init(TRUE, TRUE, 640, 480)
    /\ last_call = Call("none", <<>>)
    /\ ret = None
    /\ InitNoIO
    /\ InitNoStream

NextPair ==
    \E i \in ScopeIds :
        \/ PairEnter(i)
        \/ PairBodyWrite(i)
        \/ PairBodyReturn(i)
        \/ PairBodyRaise(i)
        \/ PairGenThrow(i)
        \/ PairGenResume(i)
        \/ PairCopyOpen(i)
        \/ PairCopyChunk(i)
        \/ PairCopyReturn(i)
        \/ PairCopyFail(i)
        \/ PairTmpDirCleanup(i)
        \/ PairScopeExit(i)

SpecPair == InitPair /\ [][NextPair]_vars

----------------------------------------------------------------------------
(* Properties of Backend.tmp_intermediate_file *)

Factories == {"create_empty_stream", "create_silent_stream", "create_single_image_stream"}

\* the with-body has ended by raising
BodyRaised == exc = "BodyError"
\* the with-body has ended by completing
BodyCompleted == pc \notin {"idle", "body"} /\ exc # "BodyError"
\* the temporary directory and everything in it is gone
TmpDirGone == tmpdirname \notin dirs /\ \A p \in Paths : p.parent = tmpdirname => ~Exists(p)

\* C1 as stated: on every exit of the scope, by completion or by an
\* exception, a file that exists at tmp_out is copied to file_name_out.
C1_CopiedOnEveryExit ==
    pc = "done" /\ at_body_end.exists => copy_called

\* C1 as amended: the scope copies exactly when the body completed and a
\* file exists at tmp_out; when the body raised no copy is made, and a copy
\* that returns leaves the content of tmp_out at file_name_out.
C1_CopiedIffBodyCompleted ==
    /\ pc = "done" => (copy_called <=> (BodyCompleted /\ at_body_end.exists))
    /\ pc = "done" /\ copy_called /\ exc = "none" => fs[file_name_out] = at_body_end

C1_Witness ==
    /\ pc = "done"
    /\ BodyCompleted
    /\ at_body_end.exists
    /\ copy_called
    /\ exc = "none"
    /\ fs[file_name_out] = at_body_end

\* C2: when the body raised, the file at file_name_out is what it was when
\* the scope was entered, whether or not the body wrote a file at tmp_out.
C2_RaiseLeavesDestination ==
    BodyRaised => fs[file_name_out] = pre

C2_Witness ==
    /\ pc = "done"
    /\ outcome = "BodyError"
    /\ at_body_end.exists
    /\ pre.exists
    /\ at_body_end # pre
    /\ fs[file_name_out] = pre

\* C3 as stated: in every state of the scope the file at file_name_out is
\* what it was before the scope, or the complete content of the file at
\* tmp_out; never a part of it.
C3_NoPartialDestination ==
    pc # "idle" =>
        \/ fs[file_name_out] = pre
        \/ /\ BodyCompleted
           /\ at_body_end.exists
           /\ fs[file_name_out] = at_body_end

\* C4: once the scope has exited, the temporary directory and everything in
\* it is gone, whether the body completed, the body raised or the copy raised.
C4_TmpDirRemoved ==
    pc = "done" => TmpDirGone

C4_Witness ==
    /\ pc = "done"
    /\ outcome = "OSError"
    /\ copy_called
    /\ at_body_end.exists
    /\ TmpDirGone

\* C5: when the body raised before any file was created at tmp_out, after
\* the scope file_name_out is absent if it was absent and unchanged if it
\* existed, and the temporary directory is gone.
C5_RaiseBeforeWrite ==
    pc = "done" /\ BodyRaised /\ ~at_body_end.exists =>
        /\ fs[file_name_out] = pre
        /\ TmpDirGone

C5_Witness ==
    /\ pc = "done"
    /\ BodyRaised
    /\ ~at_body_end.exists
    /\ pre.exists
    /\ fs[file_name_out] = pre
    /\ tmpdirname \notin dirs

C7_BodyErrorPropagates ==
    /\ body_runs <= 1
    /\ BodyRaised => outcome \in {"pending", "BodyError"}
    /\ BodyRaised /\ pc = "done" => outcome = "BodyError"
    /\ outcome = "BodyError" => TmpDirGone

C7_Witness ==
    /\ pc = "done"
    /\ outcome = "BodyError"
    /\ body_runs = 1
    /\ TmpDirGone

----------------------------------------------------------------------------
(* Properties of the Backend instance *)

\* C8: has_video and has_audio keep the values the constructor was given
\* after any sequence of the operations the base class implements.
C8_CapabilitiesKept ==
    /\ self.has_video = ctor_args.has_video
    /\ self.has_audio = ctor_args.has_audio

C8_Witness ==
    /\ last_call.op = "replace_audio_by_beep"
    /\ pc = "done"
    /\ ~self.has_audio
    /\ self.has_video

\* C9 as stated: a factory operation returns a Backend instance, never None,
\* with the width and height it was given; create_empty_stream returns one
\* that has video.
C9_FactoryReturnsStream ==
    last_call.op \in Factories =>
        /\ ret.type = "Backend"
        /\ ret.width = last_call.args[2]
        /\ ret.height = last_call.args[3]
        /\ last_call.op = "create_empty_stream" => ret.has_video

----------------------------------------------------------------------------
(* Properties of the interval helpers *)

\* 60 * M + SS of a timecode given as its numbers
SecondsOf(t) == 60 * t[1] + t[2]

\* C10: for every pair of valid timecodes, get_interval_in_s returns the two
\* timecodes in seconds, 60 * M + SS each, and get_interval_duration returns
\* the second minus the first.
C10_IntervalInSeconds ==
    /\ io_call = "get_interval_in_s" =>
           io_ret = TupleValue(<<SecondsOf(interval.start), SecondsOf(interval.end)>>)
    /\ io_call = "get_interval_duration" =>
           io_ret = IntValue(SecondsOf(interval.end) - SecondsOf(interval.start))

C10_Witness ==
    /\ io_call = "get_interval_duration"
    /\ interval.strings = << <<"2", ":", "1", "0">>, <<"4", ":", "0", "9">> >>
    /\ io_ret = IntValue(119)

----------------------------------------------------------------------------
(* Properties of the size helpers *)

\* q is the floor of n / d
IsFloorOf(q, n, d) == d * q <= n /\ n < d * (q + 1)

\* C11: for every height, get_font_size returns the floor of height / 14 and
\* get_box_height the floor of height / 7, which fixes the result by the
\* height alone, and neither changes an attribute of the instance.
C11_SizesAreFloors ==
    /\ last_call.op = "get_font_size" =>
           ret.type = "int" /\ IsFloorOf(ret.value, ctor_args.height, 14)
    /\ last_call.op = "get_box_height" =>
           ret.type = "int" /\ IsFloorOf(ret.value, ctor_args.height, 7)
    /\ self = Backend_init(ctor_args.has_video, ctor_args.has_audio,
                           ctor_args.width, ctor_args.height)

C11_Witness ==
    /\ last_call.op = "get_font_size"
    /\ self.height = -15
    /\ self.width = 1280
    /\ ret = IntValue(-2)

----------------------------------------------------------------------------
(* Properties of the operations on the stream *)

\* the duration of the stream before and after the last operation
DurationBefore == Len(frames_before)
Duration == Len(frames)

\* C12: a combine that returns leaves self with the duration of self plus
\* the duration of other, less the crossfade duration (which may be 0).
C12_CombinedDuration ==
    last_call.op = "combine" /\ ret = None =>
        Duration = DurationBefore + last_call.args[1] - last_call.args[2]

C12_Witness ==
    /\ last_call.op = "combine"
    /\ ret = None
    /\ last_call.args = <<2, 1>>
    /\ DurationBefore = 3
    /\ Duration = 4

\* 0 <= start_s < end_s of the last trim
TrimRangeValid == 0 <= last_call.args[1] /\ last_call.args[1] < last_call.args[2]

C14_BeepRejectsOutOfBounds ==
    /\ last_call.op = "replace_audio_by_beep"
    /\ ~(0 <= last_call.args[1] /\ last_call.args[1] <= last_call.args[2]
            /\ last_call.args[2] <= Duration)
    => ret = InvalidRangeError

----------------------------------------------------------------------------
(* The order of events in one scope *)

\* what holds of a state of an entered scope
ScopeOrderState ==
    /\ pc # "idle" =>
           /\ tmpdirname \in TmpDirs
           /\ tmp_out = Path(tmpdirname, file_name_out.name)
    /\ pc = "body" =>
           /\ tmpdirname \in dirs
           /\ ~copy_called
           /\ fs[file_name_out] = pre
    /\ pc \in {"copy_open", "copy_write"} =>
           /\ BodyCompleted
           /\ copy_called
           /\ tmpdirname \in dirs

\* C15: in one scope the temporary directory is created before the body
\* starts and exists during the whole body, tmp_out is the directory joined
\* with the name of file_name_out, file_name_out is written only by the copy
\* (after the body has finished, while the directory still exists, never
\* while the body runs), and the directory is removed only after that.
C15_ScopeOrder ==
    [][ /\ ScopeOrderState'
        /\ pc = "idle" /\ pc' # "idle" => pc' = "body" /\ tmpdirname' \in dirs'
        /\ pc # "idle" /\ fs'[file_name_out] # fs[file_name_out] =>
               /\ pc \in {"copy_open", "copy_write"}
               /\ tmpdirname \in dirs /\ tmpdirname \in dirs'
        /\ pc # "idle" /\ tmpdirname \in dirs /\ tmpdirname \notin dirs' =>
               pc = "cleanup"
      ]_vars

C15_Witness ==
    /\ pc = "done"
    /\ copy_called
    /\ outcome = "returned"
    /\ tmp_out = Path(tmpdirname, "round.mp4")
    /\ fs[file_name_out] # pre
    /\ tmpdirname \notin dirs

\* C16: when the body completes without creating a file at tmp_out, the
\* scope exits without an error, makes no copy, leaves file_name_out as it
\* was before the scope, and removes the temporary directory.
C16_NoFileNoCopy ==
    pc = "done" /\ BodyCompleted /\ ~at_body_end.exists =>
        /\ outcome = "returned"
        /\ ~copy_called
        /\ fs[file_name_out] = pre
        /\ TmpDirGone

C16_Witness ==
    /\ pc = "done"
    /\ BodyCompleted
    /\ ~at_body_end.exists
    /\ outcome = "returned"
    /\ ~copy_called
    /\ pre.exists
    /\ fs[file_name_out] = pre
    /\ TmpDirGone

----------------------------------------------------------------------------
(* Two scopes side by side *)

\* scope i holds its temporary directory
HoldsTmpDir(i) ==
    sc[i].pc \in {"body", "resumed", "thrown", "copy_open", "copy_write", "cleanup"}

\* f holds a part (or all) of what the body of scope i left at its tmp_out
OwnContent(i, f) ==
    /\ f.exists
    /\ sc[i].at_body_end.exists
    /\ Len(f.data) <= Len(sc[i].at_body_end.data)
    /\ \A k \in 1..Len(f.data) :
           f.data[k] = ScopeByte(i) /\ f.data[k] = sc[i].at_body_end.data[k]

\* C17: in every interleaving of two scopes with different final paths, of
\* the same file name or not, the scopes hold different temporary
\* directories and different tmp_out paths, the file at the tmp_out of a
\* scope is what its own body wrote until its own cleanup (no failure or
\* cleanup of the other scope removes or overwrites it), and each final path
\* holds what it held before or content of its own body.
C17_ScopesIsolated ==
    \A i \in ScopeIds :
        /\ \A j \in ScopeIds \ {i} :
               HoldsTmpDir(i) /\ HoldsTmpDir(j) =>
                   /\ sc[i].tmpdirname # sc[j].tmpdirname
                   /\ sc[i].tmp_out # sc[j].tmp_out
        /\ HoldsTmpDir(i) =>
               /\ sc[i].tmpdirname \in dirs
               /\ fs[sc[i].tmp_out] = sc[i].written
        /\ sc[i].pc # "idle" =>
               \/ fs[sc[i].file_name_out] = sc[i].pre
               \/ OwnContent(i, fs[sc[i].file_name_out])

C17_Witness ==
    /\ sc[1].file_name_out.name = sc[2].file_name_out.name
    /\ sc[1].pc = "exit"
    /\ sc[1].exc = "BodyError"
    /\ sc[1].written.exists
    /\ sc[2].pc = "copy_write"
    /\ sc[2].copy_pos = 1
    /\ fs[sc[2].tmp_out] = File(<<"B">>)
    /\ fs[sc[2].file_name_out] = File(<<"B">>)

====
